---- MODULE Spec2Model ----
(***************************************************************************)
(* Window handlers of leftwm-core (handlers/window_handler): the window    *)
(* list, the focus manager, the workspaces' avoid lists and the queue of   *)
(* display actions, as changed by the created / destroyed / changed        *)
(* handlers.  The repository holds two generations of the handlers: the    *)
(* methods of window_*_handler.rs wired by mod.rs ("methods") and the free *)
(* functions of create.rs / destroy.rs / changed.rs ("free").              *)
(***************************************************************************)
EXTENDS Integers, Sequences, FiniteSets, TLC

VARIABLES
    cfg,               \* configuration and build: fixed after construction
    windows,           \* state.windows: Vec<Window>
    actions,           \* state.actions: VecDeque<DisplayAction>
    window_history,    \* focus_manager.window_history, front first; 0 is None
    tags_last_window,  \* focus_manager.tags_last_window: tag -> handle, 0 absent
    focused_ws,        \* focus_manager.workspace(): index of the focused workspace
    avoid,             \* workspaces[i].avoid: Vec<Xyhw>
    ret,               \* boolean returned by the last handler call
    hung,              \* a handler call that never returned
    ev,                \* the last event delivered, with what was true before it
    created,           \* handles of the successful creations, oldest first
    restack,           \* the stacking order last told to the display server
    dock_updates,      \* the Dock windows the display server was told to refresh
    nevents            \* number of events delivered

vars == <<cfg, windows, actions, window_history, tags_last_window, focused_ws,
          avoid, ret, hung, ev, created, restack, dock_updates,
          nevents>>

-----------------------------------------------------------------------------
(* Bounds *)

MaxHandle == 3
MaxEvents == 4

Handle == 1..MaxHandle
None == 0

-----------------------------------------------------------------------------
(* Geometry: Xyhw rectangles, two workspaces side by side *)

Rect(x, y, w, h) == [x |-> x, y |-> y, w |-> w, h |-> h]

\* Xyhw::center
center(r) == <<r.x + (r.w \div 2), r.y + (r.h \div 2)>>

\* Xyhw::contains_point, Workspace::contains_point
contains_point(r, px, py) ==
    /\ r.x <= px /\ px <= r.x + r.w
    /\ r.y <= py /\ py <= r.y + r.h

\* Xyhw::contains_xyhw: both corners of the other rectangle are inside
contains_xyhw(r, other) ==
    /\ contains_point(r, other.x, other.y)
    /\ contains_point(r, other.x + other.w, other.y + other.h)

\* Xyhw::center_relative: the rectangle centered on outer, shifted by the border
center_relative(r, outer, border) ==
    [r EXCEPT !.x = outer.x + (outer.w \div 2) - (r.w \div 2) - border,
              !.y = outer.y + (outer.h \div 2) - (r.h \div 2) - border]

\* Xyhw::center_halfed: the rectangle of half the size, centered
center_halfed(r) ==
    Rect(r.x + (r.w \div 2) - (r.w \div 4), r.y + (r.h \div 2) - (r.h \div 4),
         r.w \div 2, r.h \div 2)

\* Xyhw addition and subtraction, field by field
xyhw_add(a, b) == Rect(a.x + b.x, a.y + b.y, a.w + b.w, a.h + b.h)
xyhw_sub(a, b) == Rect(a.x - b.x, a.y - b.y, a.w - b.w, a.h - b.h)

\* Xyhw::default
XyhwDefault == Rect(0, 0, 0, 0)

Tag == {1, 2}

\* state.workspaces: workspace i displays tag i; there is none before the
\* first screen is announced
workspaces(c) ==
    IF c.screens = 0 THEN <<>>
    ELSE << [tag |-> 1, layout |-> c.layout, xyhw |-> Rect(0, 0, 100, 100)],
            [tag |-> 2, layout |-> c.layout, xyhw |-> Rect(100, 0, 100, 100)] >>

WsIndex == 1..2

\* Struts of dock windows: a bar on workspace 1, a bar on workspace 2
StrutLeft == Rect(0, 0, 100, 20)
StrutRight == Rect(100, 0, 100, 20)

-----------------------------------------------------------------------------
(* Sequences *)

\* Vec::insert(index, element), index counted from 0
InsertAt(s, i, e) == SubSeq(s, 1, i) \o <<e>> \o SubSeq(s, i + 1, Len(s))

\* Iterator::position: first index (from 1) whose element has the handle, 0 if none
PositionOf(s, h) ==
    IF \E i \in 1..Len(s) : s[i].handle = h
    THEN CHOOSE i \in 1..Len(s) :
            /\ s[i].handle = h
            /\ \A j \in 1..(i - 1) : s[j].handle # h
    ELSE 0

HandlesOf(s) == [i \in 1..Len(s) |-> s[i].handle]

HandleSet(s) == {s[i].handle : i \in 1..Len(s)}

Reverse(s) == [i \in 1..Len(s) |-> s[Len(s) + 1 - i]]

-----------------------------------------------------------------------------
(* Windows *)

\* Window::is_managed
is_managed(w) == w.type # "Dock"

\* Window::is_fullscreen
is_fullscreen(w) == w.fullscreen

\* Window::visible: the window's tag is shown by a workspace
visible(c, w) == \E i \in DOMAIN workspaces(c) : workspaces(c)[i].tag = w.tag

\* is_scratchpad: the window's pid is bound to an active scratchpad
is_scratchpad(c, w) == w.pid # None /\ w.pid \in c.active_scratchpads

\* Workspace::is_managed
ws_is_managed(wsp, w) == wsp.tag = w.tag /\ is_managed(w)

\* Window::exact_xyhw: the floating rectangle of a floating window, else normal
exact_xyhw(w) ==
    IF w.floating /\ w.offsets # <<>> THEN xyhw_add(w.normal, w.offsets[1]) ELSE w.normal

\* Window::set_floating_exact: the floating offsets are kept relative to normal
set_floating_exact(w, xyhw) == [w EXCEPT !.offsets = <<xyhw_sub(xyhw, w.normal)>>]

\* helpers::vec_extract: the elements that pass the test, and the rest;
\* passing is the set of the elements of the list that pass
vec_extract(list, passing) ==
    [removed |-> SelectSeq(list, LAMBDA w : w \in passing),
     rest    |-> SelectSeq(list, LAMBDA w : w \notin passing)]

\* The state a handler works on
St == [windows |-> windows, actions |-> actions, window_history |-> window_history,
       tags_last_window |-> tags_last_window, focused_ws |-> focused_ws,
       avoid |-> avoid, restack |-> restack, dock_updates |-> dock_updates]

-----------------------------------------------------------------------------
(* Display actions *)

Act(name, h, f1, f2, n) ==
    [act |-> name, handle |-> h, flag |-> f1, follow |-> f2, arg |-> n]

\* DisplayAction::AddedWindow(handle, floating, follow_mouse)
AddedWindow(h, floating, follow_mouse) == Act("AddedWindow", h, floating, follow_mouse, 0)
\* DisplayAction::SetWindowTag(handle, tag)
SetWindowTag(h, t) == Act("SetWindowTag", h, FALSE, FALSE, t)
\* DisplayAction::SetState(handle, toggle_to, WindowState::Fullscreen)
SetState(h, b) == Act("SetState", h, b, FALSE, 0)
\* DisplayAction::FocusWindowUnderCursor
FocusWindowUnderCursor == Act("FocusWindowUnderCursor", 0, FALSE, FALSE, 0)
\* DisplayAction::Unfocus(Some(handle), floating)
Unfocus(h, floating) == Act("Unfocus", h, floating, FALSE, 0)
\* The focus request State::focus_window queues
FocusWindow(h) == Act("FocusWindow", h, FALSE, FALSE, 0)

-----------------------------------------------------------------------------
(* Helpers shared by the handlers *)

is_sloppy(c) == c.behaviour = "Sloppy"

\* find_transient_parent: index in list of the window the chain ends at, 0 for
\* None, -1 when the loop never ends (the chain runs into a cycle)
RECURSIVE transient_walk(_, _, _)
transient_walk(list, transient, fuel) ==
    LET i == PositionOf(list, transient) IN
    IF i # 0 /\ list[i].transient # None
    THEN IF fuel = 0 THEN -1
         ELSE transient_walk(list, list[i].transient, fuel - 1)
    ELSE i

find_transient_parent(list, transient) ==
    IF transient = None THEN 0 ELSE transient_walk(list, transient, Len(list))

\* FocusManager::window: index of the window at the front of the history, 0 if none
focus_manager_window(s) ==
    IF Len(s.window_history) = 0 \/ Head(s.window_history) = None
    THEN 0
    ELSE PositionOf(s.windows, Head(s.window_history))

\* Index of the workspace that displays the tag, 0 if none
workspace_of_tag(c, t) ==
    IF \E i \in DOMAIN workspaces(c) : workspaces(c)[i].tag = t
    THEN CHOOSE i \in DOMAIN workspaces(c) : workspaces(c)[i].tag = t
    ELSE 0

\* State::focus_window: the window becomes the front of the history and the
\* last window of its tag, its workspace becomes the focused one
focus_window(c, s, h) ==
    LET i == PositionOf(s.windows, h) IN
    IF i = 0 THEN s
    ELSE LET w == s.windows[i]
             wi == workspace_of_tag(c, w.tag)
         IN [s EXCEPT !.window_history = <<h>> \o @,
                      !.actions = Append(@, FocusWindow(h)),
                      !.focused_ws = IF wi # 0 THEN wi ELSE @,
                      !.tags_last_window =
                          IF w.tag \in Tag THEN [@ EXCEPT ![w.tag] = h] ELSE @]

\* The stacking layers of State::sort_windows, topmost first
stack_layer(list, w) ==
    IF is_fullscreen(w) THEN 2
    ELSE IF \E i \in 1..Len(list) :
                is_fullscreen(list[i]) /\ list[i].handle = w.transient THEN 1
    ELSE IF w.type = "Dialog" THEN 3
    ELSE IF w.type = "Normal" /\ w.floating THEN 4
    ELSE IF w.type = "Normal" THEN 5
    ELSE 6

\* State::sort_windows: tells the display server the display order of the
\* windows, layer by layer, the order of the list within a layer
sort_windows(s) ==
    LET layer(n) == SelectSeq(s.windows, LAMBDA w : stack_layer(s.windows, w) = n)
    IN [s EXCEPT !.restack =
           HandlesOf(layer(1) \o layer(2) \o layer(3) \o layer(4) \o layer(5) \o layer(6))]

\* update_workspace_avoid_list
update_workspace_avoid_list(c, s) ==
    LET docks == SelectSeq(s.windows, LAMBDA w : w.type = "Dock" /\ w.strut # <<>>)
        struts == [i \in 1..Len(docks) |-> docks[i].strut[1]]
    IN [s EXCEPT !.avoid =
           [k \in DOMAIN workspaces(c) |->
               SelectSeq(struts, LAMBDA r :
                   contains_point(workspaces(c)[k].xyhw, center(r)[1], center(r)[2]))]]

-----------------------------------------------------------------------------
(* Window created *)

\* find_terminal: index of the window owned by the terminal that launched the
\* new window's shell (terminal is None when any /proc lookup fails)
find_terminal(list, terminal) ==
    IF terminal = None THEN 0
    ELSE IF \E i \in 1..Len(list) : list[i].pid = terminal
    THEN CHOOSE i \in 1..Len(list) :
            /\ list[i].pid = terminal
            /\ \A j \in 1..(i - 1) : list[j].pid # terminal
    ELSE 0

\* Index of the first workspace under the pointer, 0 if none
workspace_under(c, xy) ==
    IF \E i \in DOMAIN workspaces(c) : contains_point(workspaces(c)[i].xyhw, xy[1], xy[2])
    THEN CHOOSE i \in DOMAIN workspaces(c) :
            /\ contains_point(workspaces(c)[i].xyhw, xy[1], xy[2])
            /\ \A j \in 1..(i - 1) :
                  ~contains_point(workspaces(c)[j].xyhw, xy[1], xy[2])
    ELSE 0

\* set_relative_floating of window_create_handler.rs: the requested rectangle
\* if the workspace contains it, else centered on outer if the workspace then
\* contains it, else the centered half of the workspace
set_relative_floating_methods(w, ws, outer) ==
    LET w1 == [w EXCEPT !.floating = TRUE, !.normal = ws.xyhw]
        requested == w.requested[1]
        centered == center_relative(requested, outer, w.border)
    IN set_floating_exact(w1,
          IF w.requested = <<>> THEN center_halfed(ws.xyhw)
          ELSE IF contains_xyhw(ws.xyhw, requested) THEN requested
          ELSE IF contains_xyhw(ws.xyhw, centered) THEN centered
          ELSE center_halfed(ws.xyhw))

\* set_relative_floating of create.rs: the requested rectangle centered on
\* outer if the workspace contains it, else centered on the workspace
set_relative_floating_free(w, ws, outer) ==
    LET w1 == [w EXCEPT !.floating = TRUE, !.normal = ws.xyhw]
        requested == w.requested[1]
        centered == center_relative(requested, outer, w.border)
    IN set_floating_exact(w1,
          IF w.requested = <<>> THEN center_halfed(ws.xyhw)
          ELSE IF contains_xyhw(ws.xyhw, centered) THEN centered
          ELSE center_relative(centered, ws.xyhw, w.border))

set_relative_floating(c, w, ws, outer) ==
    IF c.gen = "methods"
    THEN set_relative_floating_methods(w, ws, outer)
    ELSE set_relative_floating_free(w, ws, outer)

\* setup_window: the placement by window type, when the window is neither a
\* scratchpad nor a transient child
setup_by_type(c, w, ws) ==
    CASE w.type = "Normal" ->
            IF w.floating THEN set_relative_floating(c, w, ws, ws.xyhw) ELSE w
      [] w.type = "Dialog" ->
            IF w.can_resize
            THEN set_floating_exact([w EXCEPT !.floating = TRUE, !.normal = ws.xyhw],
                                    center_halfed(ws.xyhw))
            ELSE set_relative_floating(c, w, ws, ws.xyhw)
      [] w.type = "Splash" -> set_relative_floating(c, w, ws, ws.xyhw)
      [] OTHER -> w

\* ScratchPad::xyhw: the rectangle of the scratchpad template on the workspace
scratchpad_xyhw(c, ws) ==
    Rect(ws.xyhw.x + c.scratchpad.x, ws.xyhw.y + c.scratchpad.y,
         c.scratchpad.w, c.scratchpad.h)

\* A scratchpad window floated and then placed by the rules of its type
setup_scratchpad_by_type(c, w, ws) == setup_by_type(c, [w EXCEPT !.floating = TRUE], ws)

\* setup_window: a window bound to an active scratchpad
setup_scratchpad(c, w, ws) ==
    set_floating_exact([w EXCEPT !.floating = TRUE, !.normal = ws.xyhw],
                       scratchpad_xyhw(c, ws))

\* A transient child placed by the rules of its type
setup_child_by_type(c, w, ws, parent) == setup_by_type(c, w, ws)

\* setup_window: a transient child is floated relative to its parent
setup_child(c, w, ws, parent) == set_relative_floating(c, w, ws, exact_xyhw(parent))

\* The workspace under the pointer whatever the focus behaviour
target_workspace_pointer(c, s, xy) ==
    IF workspace_under(c, xy) # 0 THEN workspace_under(c, xy) ELSE s.focused_ws

\* The workspace a new window goes to: the one under the pointer if the focus
\* is sloppy and there is one, else the focused one
target_workspace(c, s, xy) ==
    LET under == IF is_sloppy(c) THEN workspace_under(c, xy) ELSE 0
    IN IF under # 0 THEN under ELSE s.focused_ws

\* setup_window: tag, floating flag, layout, is_first and on_same_tag of a new window
setup_window(c, s, w0, xy, terminal) ==
    LET wi == target_workspace(c, s, xy)
    IN
    IF wi # 0
    THEN LET ws == workspaces(c)[wi]
             is_first == ~\E i \in 1..Len(s.windows) :
                            ws.tag = s.windows[i].tag /\ is_managed(s.windows[i])
             t == find_terminal(s.windows, terminal)
             tag == IF w0.tag # None THEN w0.tag
                    ELSE IF t # 0 THEN s.windows[t].tag ELSE ws.tag
             w1 == [w0 EXCEPT !.tag = tag]
             parent == find_transient_parent(s.windows, w1.transient)
             out(w, h) == [w |-> w, layout |-> ws.layout, is_first |-> is_first,
                           on_same_tag |-> (ws.tag = tag), hung |-> h, s |-> s]
         IN
         IF is_scratchpad(c, w1) THEN out(setup_scratchpad(c, w1, ws), FALSE)
         ELSE IF parent = -1 THEN out(w1, TRUE)
         ELSE IF parent # 0 /\ w1.type # "Utility"
              THEN out(setup_child(c, w1, ws, s.windows[parent]), FALSE)
         ELSE out(setup_by_type(c, w1, ws), FALSE)
    ELSE LET s1 == IF c.gen = "methods" THEN sort_windows(s) ELSE s
             w1 == [w0 EXCEPT !.tag = 1]
             w2 == IF is_scratchpad(c, w1) /\ c.nsp # None
                   THEN [w1 EXCEPT !.tag = c.nsp, !.floating = TRUE]
                   ELSE w1
         IN [w |-> w2, layout |-> "MainAndVertStack", is_first |-> FALSE,
             on_same_tag |-> TRUE, hung |-> FALSE, s |-> s1]

\* The new window put first in its group under either layout
insert_reorder_first(c, s, w, layout, was_fullscreen) ==
    [s EXCEPT !.windows =
        SelectSeq(@, LAMBDA x : ~(w.tag = x.tag /\ is_managed(x)))
          \o <<w>> \o SelectSeq(@, LAMBDA x : w.tag = x.tag /\ is_managed(x))]

\* The new window made fullscreen under MainAndDeck as under Monocle
insert_reorder_toggle_always(c, s, w, layout, was_fullscreen) ==
    LET for_active_workspace(x) == w.tag = x.tag /\ is_managed(x)
        ex == vec_extract(s.windows, {s.windows[i] : i \in {j \in 1..Len(s.windows) :
                                       for_active_workspace(s.windows[j])}})
        to_reorder == ex.removed
        s1 == [s EXCEPT !.actions = IF was_fullscreen
                                    THEN Append(@, SetState(w.handle, ~is_fullscreen(w)))
                                    ELSE @]
    IN IF layout = "Monocle" \/ Len(to_reorder) = 0
       THEN [s1 EXCEPT !.windows = ex.rest \o InsertAt(to_reorder, 0, w)]
       ELSE [s1 EXCEPT !.windows = ex.rest \o InsertAt(to_reorder, 1, w)]

\* The branch of insert_window for Monocle and MainAndDeck: the managed windows
\* of the new window's tag are taken out, the new one is put among them, and
\* the group is appended to the list
insert_reorder(c, s, w, layout, was_fullscreen) ==
    LET for_active_workspace(x) == w.tag = x.tag /\ is_managed(x)
        ex == vec_extract(s.windows, {s.windows[i] : i \in {j \in 1..Len(s.windows) :
                                       for_active_workspace(s.windows[j])}})
        to_reorder == ex.removed
    IN IF layout = "Monocle" \/ Len(to_reorder) = 0
       THEN [s EXCEPT
               !.actions = IF was_fullscreen
                           THEN Append(@, SetState(w.handle, ~is_fullscreen(w)))
                           ELSE @,
               !.windows = ex.rest \o InsertAt(to_reorder, 0, w)]
       ELSE [s EXCEPT !.windows = ex.rest \o InsertAt(to_reorder, 1, w)]

\* Bottom placing the window after the focused one instead of last
insert_bottom_after_current(c, s, w) ==
    LET cur == focus_manager_window(s)
        current_index == IF cur # 0 THEN cur - 1 ELSE 0
        len == Len(s.windows)
    IN CASE c.insert_behavior = "Top" ->
              [s EXCEPT !.windows = InsertAt(@, 0, w)]
         [] c.insert_behavior \in {"Bottom", "AfterCurrent"} /\ current_index < len ->
              [s EXCEPT !.windows = InsertAt(@, current_index + 1, w)]
         [] OTHER ->
              [s EXCEPT !.windows = InsertAt(@, current_index, w)]

\* AfterCurrent placing the window at the index of the focused one
insert_after_at_current(c, s, w) ==
    LET cur == focus_manager_window(s)
        current_index == IF cur # 0 THEN cur - 1 ELSE 0
    IN CASE c.insert_behavior = "Top" ->
              [s EXCEPT !.windows = InsertAt(@, 0, w)]
         [] c.insert_behavior = "Bottom" ->
              [s EXCEPT !.windows = Append(@, w)]
         [] OTHER ->
              [s EXCEPT !.windows = InsertAt(@, current_index, w)]

\* AfterCurrent falling back to the index of the focused window one place early
insert_after_clamped_early(c, s, w) ==
    LET cur == focus_manager_window(s)
        current_index == IF cur # 0 THEN cur - 1 ELSE 0
        len == Len(s.windows)
    IN CASE c.insert_behavior = "Top" ->
              [s EXCEPT !.windows = InsertAt(@, 0, w)]
         [] c.insert_behavior = "Bottom" ->
              [s EXCEPT !.windows = Append(@, w)]
         [] c.insert_behavior = "AfterCurrent" /\ current_index + 1 < len ->
              [s EXCEPT !.windows = InsertAt(@, current_index + 1, w)]
         [] OTHER ->
              [s EXCEPT !.windows = InsertAt(@, current_index, w)]

\* The last part of insert_window: the configured insert behavior
insert_by_behavior(c, s, w) ==
    LET cur == focus_manager_window(s)
        current_index == IF cur # 0 THEN cur - 1 ELSE 0
        len == Len(s.windows)
    IN CASE c.insert_behavior = "Top" ->
              [s EXCEPT !.windows = InsertAt(@, 0, w)]
         [] c.insert_behavior = "Bottom" ->
              [s EXCEPT !.windows = Append(@, w)]
         [] c.insert_behavior = "AfterCurrent" /\ current_index < len ->
              [s EXCEPT !.windows = InsertAt(@, current_index + 1, w)]
         [] OTHER ->
              [s EXCEPT !.windows = InsertAt(@, current_index, w)]

\* Every window placed by the configured insert behavior
insert_window_by_behavior(c, s, w, layout) == insert_by_behavior(c, s, w)

\* insert_window
insert_window(c, s, w, layout) ==
    LET for_active_workspace(x) == w.tag = x.tag /\ is_managed(x)
        fs == SelectSeq(s.windows, LAMBDA x : for_active_workspace(x) /\ is_fullscreen(x))
        was_fullscreen == w.type = "Normal" /\ Len(fs) > 0
        s1 == IF was_fullscreen
              THEN [s EXCEPT !.actions =
                       Append(@, SetState(fs[1].handle, ~is_fullscreen(fs[1])))]
              ELSE s
    IN IF w.type = "Normal" /\ layout \in {"Monocle", "MainAndDeck"}
       THEN insert_reorder(c, s1, w, layout, was_fullscreen)
       ELSE IF w.type \in {"Dialog", "Splash", "Utility"} \/ is_scratchpad(c, w)
       THEN [s1 EXCEPT !.windows = InsertAt(@, 0, w)]
       ELSE insert_by_behavior(c, s1, w)

\* The result of a handler call
Result(s, r, h) == [s |-> s, ret |-> r, hung |-> h]

\* A new window that gets the focus whatever focus_new_windows says
takes_focus_always(c, is_first, on_same_tag) == on_same_tag

\* A new window that gets the focus on whichever tag it landed
takes_focus_anywhere(c, is_first, on_same_tag) == c.focus_new_windows \/ is_first

\* The condition under which window_created_handler focuses the new window
takes_focus(c, is_first, on_same_tag) ==
    (c.focus_new_windows \/ is_first) /\ on_same_tag

\* The pointer told to follow the focus wherever the window landed
announce_following(c, su, s1) ==
    sort_windows([s1 EXCEPT !.actions =
        @ \o <<AddedWindow(su.w.handle, su.w.floating,
                           c.focus_new_windows /\ is_sloppy(c) /\ c.sloppy_mouse_follows_focus),
               SetWindowTag(su.w.handle, su.w.tag)>>])

\* The display server told of the tag before it is told of the window
announce_tag_first(c, su, s1) ==
    sort_windows([s1 EXCEPT !.actions =
        @ \o <<SetWindowTag(su.w.handle, su.w.tag),
               AddedWindow(su.w.handle, su.w.floating, FALSE)>>])

\* window_created_handler: the display server is told of the window, its tag
\* and the new stacking order
announce_window(c, su, s1) ==
    LET follow_mouse == /\ c.focus_new_windows
                        /\ is_sloppy(c)
                        /\ c.sloppy_mouse_follows_focus
                        /\ su.on_same_tag
    IN sort_windows([s1 EXCEPT !.actions =
           @ \o <<AddedWindow(su.w.handle, su.w.floating, follow_mouse)>>
             \o (IF su.w.tag # None
                 THEN <<SetWindowTag(su.w.handle, su.w.tag)>>
                 ELSE <<>>)])

\* window_created_handler: the new window is focused, or not
focus_new_window(c, su, s4) ==
    IF takes_focus(c, su.is_first, su.on_same_tag)
    THEN focus_window(c, s4, su.w.handle)
    ELSE s4

\* window_created_handler once setup_window has returned su
insert_and_announce(c, s, su) ==
    IF su.hung THEN Result(s, FALSE, TRUE)
    ELSE Result(focus_new_window(c, su,
                    announce_window(c, su, insert_window(c, su.s, su.w, su.layout))),
                TRUE, FALSE)

\* window_created_handler after the check for a known handle
create_window(c, s, w0, xy, terminal) ==
    insert_and_announce(c, s, setup_window(c, s, w0, xy, terminal))

\* Manager::window_created_handler of window_create_handler.rs
window_created_handler(c, s, w0, xy, terminal) ==
    create_window(c, s, w0, xy, terminal)

\* Manager::window_created_handler of create.rs
window_created_handler_free(c, s, w0, xy, terminal) ==
    IF \E i \in 1..Len(s.windows) : s.windows[i].handle = w0.handle
    THEN Result(s, FALSE, FALSE)
    ELSE create_window(c, s, w0, xy, terminal)

-----------------------------------------------------------------------------
(* Window destroyed *)

\* helpers::relative_find(list, is_handle, shift, false): index of the element
\* shift places from the first one with the handle, 0 if there is none
relative_find(list, h, shift) ==
    LET i == PositionOf(list, h) IN
    IF i = 0 \/ i + shift < 1 \/ i + shift > Len(list) THEN 0 ELSE i + shift

\* get_next_or_previous_handle: the windows of the focused workspace are taken
\* out of the list, searched, and appended to it
get_next_or_previous_handle(c, s, h) ==
    IF s.focused_ws = 0 THEN [s |-> s, new_handle |-> None]
    ELSE LET focused_workspace == workspaces(c)[s.focused_ws]
             ex == vec_extract(s.windows, {s.windows[i] : i \in {j \in 1..Len(s.windows) :
                                       ws_is_managed(focused_workspace, s.windows[j])}})
             windows_on_workspace == ex.removed
             next == relative_find(windows_on_workspace, h, 1)
             prev == relative_find(windows_on_workspace, h, -1)
             new_handle == IF next # 0 THEN windows_on_workspace[next].handle
                           ELSE IF prev # 0 THEN windows_on_workspace[prev].handle
                           ELSE None
         IN [s |-> [s EXCEPT !.windows = ex.rest \o windows_on_workspace],
             new_handle |-> new_handle]

\* The successor tried before the transient parent
refocus_successor_first(c, s, h, floating, parent, new_handle) ==
    IF is_sloppy(c) /\ c.sloppy_mouse_follows_focus
    THEN [s EXCEPT !.actions = Append(@, FocusWindowUnderCursor)]
    ELSE IF new_handle # None THEN focus_window(c, s, new_handle)
    ELSE IF parent # None THEN focus_window(c, s, parent)
    ELSE [s EXCEPT !.actions = Append(@, Unfocus(h, floating)),
                   !.window_history = <<None>> \o @]

\* Unfocus queued without None pushed onto the history
refocus_without_none(c, s, h, floating, parent, new_handle) ==
    IF is_sloppy(c) /\ c.sloppy_mouse_follows_focus
    THEN [s EXCEPT !.actions = Append(@, FocusWindowUnderCursor)]
    ELSE IF parent # None THEN focus_window(c, s, parent)
    ELSE IF new_handle # None THEN focus_window(c, s, new_handle)
    ELSE [s EXCEPT !.actions = Append(@, Unfocus(h, floating))]

\* The focus outcome of window_destroyed_handler when the destroyed window is
\* the front of the history; parent is the resolved transient parent's handle
refocus_after_destroy(c, s, h, floating, parent, new_handle) ==
    IF is_sloppy(c) /\ c.sloppy_mouse_follows_focus
    THEN [s EXCEPT !.actions = Append(@, FocusWindowUnderCursor)]
    ELSE IF parent # None THEN focus_window(c, s, parent)
    ELSE IF new_handle # None THEN focus_window(c, s, new_handle)
    ELSE [s EXCEPT !.actions = Append(@, Unfocus(h, floating)),
                   !.window_history = <<None>> \o @]

\* The destroyed window left as the last window of its tag
purge_nothing(s, h) == s

\* window_destroyed_handler: tags_last_window.retain(|_, h| h != handle)
purge_last_window(s, h) ==
    [s EXCEPT !.tags_last_window = [t \in Tag |-> IF @[t] = h THEN None ELSE @[t]]]

\* Manager::window_destroyed_handler (window_destroy_handler.rs and destroy.rs)
window_destroyed_handler(c, s, h) ==
    LET g == get_next_or_previous_handle(c, s, h)
        s1 == g.s
        i == PositionOf(s1.windows, h)
    IN IF i = 0 THEN Result(s1, FALSE, FALSE)
       ELSE LET w == s1.windows[i]
                s2 == [purge_last_window(s1, h) EXCEPT
                         !.windows = SelectSeq(@, LAMBDA x : x.handle # h)]
                s3 == update_workspace_avoid_list(c, s2)
                focused == Len(s3.window_history) > 0 /\ Head(s3.window_history) = h
                sloppy == is_sloppy(c) /\ c.sloppy_mouse_follows_focus
                p == find_transient_parent(s3.windows, w.transient)
                parent == IF p > 0 THEN s3.windows[p].handle ELSE None
            IN IF ~focused THEN Result(s3, visible(c, w), FALSE)
               ELSE IF ~sloppy /\ p = -1 THEN Result(s3, FALSE, TRUE)
               ELSE Result(refocus_after_destroy(c, s3, h, w.floating, parent, g.new_handle),
                           visible(c, w), FALSE)

-----------------------------------------------------------------------------
(* Window moved, window resized *)

\* should_snap: `let dist = 10`
SnapDist == 10

Abs(n) == IF n < 0 THEN -n ELSE n

\* Window::calculated_xyhw: the rectangle the window is displayed at
calculated_xyhw(w) == exact_xyhw(w)

\* Window::must_float: windows that are never tiled
must_float(w) == w.transient # None \/ ~is_managed(w) \/ w.type = "Splash"

\* The two numbers added to the offsets the window had
process_window_cumulative(w, offset_x, offset_y) ==
    LET offset == IF w.offsets = <<>> THEN XyhwDefault ELSE w.offsets[1]
    IN [w EXCEPT !.offsets = <<[offset EXCEPT !.x = @ + offset_x, !.y = @ + offset_y]>>]

\* process_window: the x and y of the floating offsets become the start
\* location plus the two numbers of the event
process_window(w, offset_x, offset_y) ==
    LET offset == IF w.offsets = <<>> THEN XyhwDefault ELSE w.offsets[1]
        start == IF w.start_loc = <<>> THEN XyhwDefault ELSE w.start_loc[1]
    IN [w EXCEPT !.offsets = <<[offset EXCEPT !.x = start.x + offset_x,
                                              !.y = start.y + offset_y]>>]

\* The test with a side exactly dist away counted as close
close_edge_inclusive(w, ws, loc) ==
    \E d \in {loc.y - ws.xyhw.y, loc.y + loc.h - ws.xyhw.y - ws.xyhw.h,
               loc.x - ws.xyhw.x, loc.x + loc.w - ws.xyhw.x - ws.xyhw.w} : Abs(d) <= SnapDist

\* The test of should_snap: a side of the window closer than dist to the same
\* side of the workspace
close_edge(w, ws, loc) ==
    LET win_left == loc.x
        win_right == win_left + calculated_xyhw(w).w
        win_top == loc.y
        win_bottom == win_top + calculated_xyhw(w).h
        ws_left == ws.xyhw.x
        ws_right == ws.xyhw.x + ws.xyhw.w
        ws_top == ws.xyhw.y
        ws_bottom == ws.xyhw.y + ws.xyhw.h
    IN \E d \in {win_top - ws_top, win_bottom - ws_bottom,
                 win_left - ws_left, win_right - ws_right} : Abs(d) < SnapDist

\* should_snap
should_snap(w, ws, loc) == ~must_float(w) /\ close_edge(w, ws, loc)

\* Window::snap_to_workspace: the window is tiled on the workspace
window_snap_to_workspace(w, ws) == [w EXCEPT !.floating = FALSE, !.tag = ws.tag]

\* Manager::snap_to_workspace: index of the workspace the window snaps to, 0
\* if it does not snap
snap_to_workspace(c, w) ==
    LET loc == calculated_xyhw(w)
        wi == workspace_under(c, center(loc))
    IN IF wi # 0 /\ should_snap(w, workspaces(c)[wi], loc) THEN wi ELSE 0

\* window_move_handler once the window at index i has been processed into w
move_and_snap(c, s, i, w) ==
    IF ~c.disable_window_snap /\ snap_to_workspace(c, w) # 0
    THEN sort_windows([s EXCEPT !.windows[i] =
            window_snap_to_workspace(w, workspaces(c)[snap_to_workspace(c, w)])])
    ELSE [s EXCEPT !.windows[i] = w]

\* Manager::window_move_handler
window_move_handler(c, s, h, offset_x, offset_y) ==
    IF PositionOf(s.windows, h) = 0 THEN Result(s, FALSE, FALSE)
    ELSE Result(move_and_snap(c, s, PositionOf(s.windows, h),
                    process_window(s.windows[PositionOf(s.windows, h)], offset_x, offset_y)),
                TRUE, FALSE)

\* Manager::window_resize_handler
window_resize_handler(c, s, h, offset_w, offset_h) ==
    IF PositionOf(s.windows, h) = 0 THEN Result(s, FALSE, FALSE)
    ELSE Result([s EXCEPT !.windows[PositionOf(s.windows, h)] =
                    process_window(@, offset_w, offset_h)],
                TRUE, FALSE)

-----------------------------------------------------------------------------
(* Window changed *)

NoChange == "none"

\* WindowChange::update: the fields the change carries are written to the window
update(ch, w) ==
    [w EXCEPT !.strut = IF ch.strut # <<>> THEN ch.strut ELSE @,
              !.type = IF ch.type # NoChange THEN ch.type ELSE @,
              !.fullscreen = IF ch.states # NoChange THEN ch.states = "Fullscreen" ELSE @]

\* The part of window_changed_handler both generations share; in_place says
\* whether the update is written to the window of state.windows (changed.rs) or
\* to the window of the snapshot (window_changed_handler.rs)
\* State::update_static: recomputes the layout metadata cached for the windows
\* that reserve screen space; none of it is part of the handlers' state
update_static(s) == s

\* A strut change that moves every window with a strut to tag 2
strut_changed_retag(s, ch) ==
    IF ch.strut # <<>>
    THEN [s EXCEPT !.windows = [i \in 1..Len(s.windows) |->
            IF s.windows[i].strut # <<>> THEN [s.windows[i] EXCEPT !.tag = 2]
            ELSE s.windows[i]]]
    ELSE s

\* The tail of the handler, which runs whether or not the window was found
strut_changed(s, ch) == IF ch.strut # <<>> THEN update_static(s) ELSE s

\* fullscreen_changed computed for every change, with or without states
fullscreen_changed_stateless(ch, window) ==
    ch.states = "Fullscreen" \/ is_fullscreen(window)

\* window_changed_handler: whether the change may enter or leave fullscreen
fullscreen_changed(ch, window) ==
    ch.states # NoChange /\ (ch.states = "Fullscreen" \/ is_fullscreen(window))

\* window_changed_handler: the first Dock window is refreshed on the display
\* server and the windows are sorted again
fullscreen_path(s) ==
    LET docks == SelectSeq(s.windows, LAMBDA w : w.type = "Dock")
    IN sort_windows([s EXCEPT !.dock_updates =
           IF docks # <<>> THEN Append(@, docks[1].handle) ELSE @])

change_window(c, s, ch, in_place) ==
    LET snapshot == s.windows
        i == PositionOf(s.windows, ch.handle)
    IN IF i = 0 THEN Result(strut_changed(s, ch), FALSE, FALSE)
       ELSE LET window == s.windows[i]
                p == find_transient_parent(snapshot, window.transient)
                updated == update(ch, window)
                changed == updated # window
                s1 == IF in_place THEN [s EXCEPT !.windows[i] = updated] ELSE s
                s2 == IF updated.type = "Dock" THEN update_workspace_avoid_list(c, s1) ELSE s1
                s3 == IF fullscreen_changed(ch, window) THEN fullscreen_path(s2) ELSE s2
            IN IF p = -1 THEN Result(s, FALSE, TRUE)
               ELSE Result(strut_changed(s3, ch), changed, FALSE)

\* Manager::window_changed_handler of window_changed_handler.rs
window_changed_handler(c, s, ch) == change_window(c, s, ch, FALSE)

\* Manager::window_changed_handler of changed.rs
window_changed_handler_free(c, s, ch) == change_window(c, s, ch, TRUE)

-----------------------------------------------------------------------------
(* Events the display server delivers *)

\* A new window as the display server and the window rules hand it over
Win(type, tag, transient, floating, fullscreen, strut) ==
    [handle |-> None, type |-> type, tag |-> tag, transient |-> transient,
     floating |-> floating, fullscreen |-> fullscreen, strut |-> strut, pid |-> None,
     requested |-> <<>>, border |-> 0, can_resize |-> TRUE,
     normal |-> XyhwDefault, offsets |-> <<>>, start_loc |-> <<>>]

Plain == Win("Normal", None, None, FALSE, FALSE, <<>>)

\* A Normal window marked floating that asks for a rectangle
Floating(requested, border) ==
    [Plain EXCEPT !.floating = TRUE, !.requested = <<requested>>, !.border = border]

\* A change of window properties
Change(states, strut, type) ==
    [handle |-> None, states |-> states, strut |-> strut, type |-> type]

\* Process ids: of a terminal emulator, of a program started from a shell, of
\* the program bound to the active scratchpad
TerminalPid == 7
ShellChildPid == 8
ScratchpadPid == 9

\* What the walk up /proc from the new window's pid ends at: the pid of the
\* terminal that runs the shell that started it, None if any step fails
Terminals(c) == IF c.scope = "tags" THEN {None, TerminalPid} ELSE {None}

\* The windows, pointer positions and changes the environment of a
\* specification draws from
NewWindows(c) ==
    CASE c.scope = "create" -> {Plain, [Plain EXCEPT !.type = "Dialog"]}
      [] c.scope = "insert" ->
            {Plain, [Plain EXCEPT !.fullscreen = TRUE], [Plain EXCEPT !.floating = TRUE],
             [Plain EXCEPT !.type = "Dialog"]}
      [] c.scope = "monocle" ->
            {Plain, [Plain EXCEPT !.fullscreen = TRUE], [Plain EXCEPT !.tag = 2],
             [Plain EXCEPT !.type = "Dock"]}
      [] c.scope = "destroy" ->
            {Plain, [Plain EXCEPT !.tag = 2]}
              \cup {[Plain EXCEPT !.transient = t] : t \in Handle}
      [] c.scope = "dock" ->
            {Plain} \cup {Win("Dock", None, None, FALSE, FALSE, st) :
                             st \in {<<>>, <<StrutLeft>>, <<StrutRight>>}}
      [] c.scope = "float" ->
            {Floating(Rect(10, 10, 40, 40), 0)}
              \cup {[Plain EXCEPT !.transient = 1]}
              \cup {[Floating(r, 0) EXCEPT !.floating = FALSE, !.transient = 1] :
                       r \in {Rect(0, 0, 30, 30), Rect(90, 90, 30, 30), Rect(0, 0, 120, 120)}}
              \cup {[Floating(Rect(0, 0, 100, 100), 2) EXCEPT
                        !.floating = FALSE, !.transient = 1]}
      [] c.scope = "move" ->
            {Floating(Rect(30, 30, 40, 40), 0),
             [Floating(Rect(30, 30, 40, 40), 0) EXCEPT !.start_loc = <<Rect(5, 0, 0, 0)>>],
             [Floating(Rect(30, 30, 40, 40), 0) EXCEPT !.type = "Splash"]}
      [] c.scope = "straddle" ->
            {Floating(Rect(30, 30, 40, 40), 0),
             [Floating(Rect(30, 30, 40, 40), 0) EXCEPT !.type = "Splash"]}
      [] c.scope = "handoff" ->
            {Plain, [Plain EXCEPT !.transient = 1]}
      [] c.scope = "states" ->
            {Plain, [Plain EXCEPT !.fullscreen = TRUE],
             Win("Dock", None, None, FALSE, FALSE, <<StrutLeft>>)}
      [] c.scope = "miss" ->
            {Plain, Win("Dock", None, None, FALSE, FALSE, <<StrutLeft>>)}
      [] c.scope = "place" ->
            {Plain, [Plain EXCEPT !.tag = 2], [Plain EXCEPT !.type = "Dock"]}
      [] c.scope = "child" ->
            {Floating(Rect(50, 10, 40, 40), 0),
             [Plain EXCEPT !.transient = 1],
             [Plain EXCEPT !.transient = 2],
             [Floating(Rect(90, 90, 30, 30), 0) EXCEPT
                !.floating = FALSE, !.type = "Dialog", !.transient = 1],
             [Floating(Rect(90, 90, 30, 30), 0) EXCEPT
                !.floating = FALSE, !.type = "Splash", !.transient = 1],
             [Floating(Rect(90, 90, 30, 30), 0) EXCEPT
                !.floating = FALSE, !.type = "Utility", !.transient = 1]}
      [] c.scope = "top" ->
            {Plain, [Plain EXCEPT !.pid = ScratchpadPid], [Plain EXCEPT !.tag = 2]}
              \cup {[Plain EXCEPT !.type = t] : t \in {"Dialog", "Splash", "Utility"}}
      [] c.scope = "fullscreen" ->
            {Plain, [Plain EXCEPT !.fullscreen = TRUE], [Plain EXCEPT !.tag = 2],
             [Plain EXCEPT !.type = "Dialog", !.fullscreen = TRUE]}
      [] c.scope = "scratch" ->
            {Floating(Rect(10, 10, 40, 40), 0),
             [Plain EXCEPT !.pid = ScratchpadPid],
             [Floating(Rect(90, 90, 30, 30), 0) EXCEPT !.pid = ScratchpadPid],
             [Floating(Rect(90, 90, 30, 30), 0) EXCEPT
                !.floating = FALSE, !.transient = 1, !.pid = ScratchpadPid],
             [Plain EXCEPT !.type = "Dialog", !.pid = ScratchpadPid]}
      [] c.scope = "tags" ->
            {[Plain EXCEPT !.pid = TerminalPid, !.tag = 2],
             [Plain EXCEPT !.pid = ShellChildPid],
             [Plain EXCEPT !.pid = ShellChildPid, !.tag = 1],
             [Plain EXCEPT !.pid = ShellChildPid, !.tag = 2]}

\* The pointer is nowhere, on workspace 1 or on workspace 2
Pointers(c) ==
    CASE c.scope = "place" -> {<<-1, -1>>, <<50, 50>>, <<150, 50>>}
      [] c.scope \in {"tags", "scratch"} -> {<<-1, -1>>, <<150, 50>>}
      [] c.scope = "handoff" -> {<<50, 50>>, <<150, 50>>}
      [] OTHER -> {<<-1, -1>>}

\* The numbers of a WindowMove event: the left side of a window 40 wide ends 9,
\* 10 or 11 from the left side of its workspace, or its right side 9 from the right
Deltas(c) ==
    CASE c.scope = "float" -> {<<-30, 10>>, <<130, 10>>}
      [] c.scope = "move" -> {<<9, 30>>, <<10, 30>>, <<11, 30>>, <<51, 30>>}
      [] c.scope = "straddle" -> {<<-5, 30>>, <<9, 30>>, <<30, 30>>, <<65, 30>>}
      [] OTHER -> {<<9, 30>>}

\* The numbers of a WindowResize event
Sizes(c) == {<<5, 7>>}

Changes(c) ==
    IF c.scope = "miss"
    THEN {Change(NoChange, <<StrutRight>>, NoChange), Change("Fullscreen", <<>>, NoChange)}
    ELSE IF c.scope = "states"
    THEN {Change(NoChange, <<StrutRight>>, NoChange), Change("Fullscreen", <<>>, NoChange),
          Change("Maximized", <<>>, NoChange)}
    ELSE {Change(NoChange, <<StrutRight>>, NoChange),
          Change(NoChange, <<>>, "Dock"),
          Change(NoChange, <<>>, "Normal")}

\* Whether the display server announces a window that is already tracked
Reannounces(c) == c.scope = "create"

MaxCreated == IF created = <<>> THEN 0
              ELSE CHOOSE h \in Handle :
                      /\ \E i \in 1..Len(created) : created[i] = h
                      /\ \A i \in 1..Len(created) : created[i] <= h

Known(h) == \E i \in 1..Len(windows) : windows[i].handle = h

\* The handler call returned (or hung): the state it leaves
Deliver(r, e) ==
    /\ windows' = r.s.windows
    /\ actions' = r.s.actions
    /\ window_history' = r.s.window_history
    /\ tags_last_window' = r.s.tags_last_window
    /\ focused_ws' = r.s.focused_ws
    /\ avoid' = r.s.avoid
    /\ restack' = r.s.restack
    /\ dock_updates' = r.s.dock_updates
    /\ ret' = r.ret
    /\ hung' = r.hung
    /\ ev' = e
    /\ nevents' = nevents + 1
    /\ UNCHANGED cfg

CanDeliver == ~hung /\ nevents < MaxEvents

\* DisplayEvent::WindowCreate(window, x, y)
Created ==
    /\ CanDeliver
    /\ \E h \in Handle, t \in NewWindows(cfg), xy \in Pointers(cfg),
          terminal \in Terminals(cfg) :
          /\ h <= MaxCreated + 1
          /\ Reannounces(cfg) \/ ~Known(h)
          /\ t.pid = None => terminal = None
          /\ LET w == [t EXCEPT !.handle = h]
                 r == IF cfg.gen = "methods"
                      THEN window_created_handler(cfg, St, w, xy, terminal)
                      ELSE window_created_handler_free(cfg, St, w, xy, terminal)
             IN /\ Deliver(r, [op |-> "created", handle |-> h, known |-> Known(h),
                               win |-> w, xy |-> xy, terminal |-> terminal, pre |-> St])
                /\ created' = IF r.ret THEN Append(created, h) ELSE created

\* DisplayEvent::WindowDestroy(handle)
Destroyed ==
    /\ CanDeliver
    /\ \E h \in Handle :
          /\ Deliver(window_destroyed_handler(cfg, St, h),
                     [op |-> "destroyed", handle |-> h, known |-> Known(h), pre |-> St])
          /\ UNCHANGED created

\* DisplayEvent::WindowChange(change)
Changed ==
    /\ CanDeliver
    /\ \E h \in Handle, t \in Changes(cfg) :
          /\ LET ch == [t EXCEPT !.handle = h]
                 r == IF cfg.gen = "methods"
                      THEN window_changed_handler(cfg, St, ch)
                      ELSE window_changed_handler_free(cfg, St, ch)
             IN Deliver(r, [op |-> "changed", handle |-> h, known |-> Known(h),
                            change |-> ch, pre |-> St])
          /\ UNCHANGED created

Next == Created \/ Destroyed \/ Changed

\* DisplayEvent::MoveWindow(handle, x, y)
Moved ==
    /\ CanDeliver
    /\ \E h \in Handle, d \in Deltas(cfg) :
          /\ h <= MaxCreated + 1
          /\ Deliver(window_move_handler(cfg, St, h, d[1], d[2]),
                     [op |-> "moved", handle |-> h, known |-> Known(h),
                      delta |-> d, pre |-> St])
          /\ UNCHANGED created

\* DisplayEvent::ResizeWindow(handle, w, h)
Resized ==
    /\ CanDeliver
    /\ \E h \in Handle, d \in Sizes(cfg) :
          /\ h <= MaxCreated + 1
          /\ Deliver(window_resize_handler(cfg, St, h, d[1], d[2]),
                     [op |-> "resized", handle |-> h, known |-> Known(h),
                      delta |-> d, pre |-> St])
          /\ UNCHANGED created

Config(scope, gen, insert_behavior, behaviour, mff, focus_new_windows, layout) ==
    [scope |-> scope, gen |-> gen, insert_behavior |-> insert_behavior,
     behaviour |-> behaviour, sloppy_mouse_follows_focus |-> mff,
     focus_new_windows |-> focus_new_windows, layout |-> layout,
     active_scratchpads |-> {}, nsp |-> None, disable_window_snap |-> FALSE,
     screens |-> 2, scratchpad |-> Rect(20, 10, 60, 50)]

Generation == {"methods", "free"}
InsertBehavior == {"Top", "Bottom", "AfterCurrent", "BeforeCurrent"}

\* The state after Manager::new and screen_create_handler: two workspaces, the
\* first one focused, no window
InitWith(configs) ==
    /\ cfg \in configs
    /\ windows = <<>>
    /\ actions = <<>>
    /\ window_history = <<>>
    /\ tags_last_window = [t \in Tag |-> None]
    /\ focused_ws = IF workspaces(cfg) = <<>> THEN 0 ELSE 1
    /\ avoid = [k \in DOMAIN workspaces(cfg) |-> <<>>]
    /\ restack = <<>>
    /\ dock_updates = <<>>
    /\ ret = FALSE
    /\ hung = FALSE
    /\ ev = [op |-> "init"]
    /\ created = <<>>
    /\ nevents = 0

Init == InitWith({Config("dock", g, "Bottom", "ClickTo", FALSE, TRUE, "MainAndVertStack") :
                    g \in Generation})

\* Docks, struts and property changes, under both generations
Spec == Init /\ [][Next]_vars

NextLifecycle == Created \/ Destroyed

\* Windows announced again while tracked, under both generations
InitCreate ==
    InitWith({Config("create", g, ib, "ClickTo", FALSE, fnw, "MainAndVertStack") :
                g \in Generation, ib \in {"Top", "AfterCurrent"}, fnw \in BOOLEAN})

SpecCreate == InitCreate /\ [][NextLifecycle]_vars

\* Every insert behavior, on workspaces with a layout that keeps the list order
InitInsert ==
    InitWith({Config("insert", "methods", ib, "ClickTo", FALSE, fnw, "MainAndVertStack") :
                ib \in InsertBehavior, fnw \in BOOLEAN})

SpecInsert == InitInsert /\ [][NextLifecycle]_vars

\* The layouts that reorder the windows of a tag
InitMonocle ==
    InitWith({Config("monocle", "methods", "Bottom", "ClickTo", FALSE, fnw, l) :
                fnw \in BOOLEAN, l \in {"Monocle", "MainAndDeck"}})

SpecMonocle == InitMonocle /\ [][NextLifecycle]_vars

\* Transient children and windows on two tags, under every focus behaviour
InitDestroy ==
    InitWith({Config("destroy", "methods", "Bottom", b[1], b[2], fnw, "MainAndVertStack") :
                b \in {<<"ClickTo", FALSE>>, <<"Sloppy", FALSE>>, <<"Sloppy", TRUE>>},
                fnw \in BOOLEAN})

SpecDestroy == InitDestroy /\ [][NextLifecycle]_vars

NextFloat == Created \/ Moved

\* Transient children of a floating parent that the user drags out of its
\* workspace, under both generations
InitFloat ==
    InitWith({Config("float", g, "Bottom", "ClickTo", FALSE, TRUE, "MainAndVertStack") :
                g \in Generation})

SpecFloat == InitFloat /\ [][NextFloat]_vars

NextGeometry == Created \/ Moved \/ Resized

\* Floating windows dragged and resized, with and without snapping
InitMove ==
    InitWith({[Config("move", "methods", "Bottom", "ClickTo", FALSE, TRUE, "MainAndVertStack")
                 EXCEPT !.disable_window_snap = d] : d \in BOOLEAN})

SpecMove == InitMove /\ [][NextGeometry]_vars

NextMiss == Created \/ Changed \/ Moved \/ Resized

\* Floating windows dragged inside a workspace, across the side it shares
\* with the next one and across the side of the screen
InitStraddle ==
    InitWith({[Config("straddle", "methods", "Bottom", "ClickTo", FALSE, TRUE,
                      "MainAndVertStack")
                 EXCEPT !.disable_window_snap = d] : d \in BOOLEAN})

SpecStraddle == InitStraddle /\ [][NextFloat]_vars

\* Windows and transient children created under the pointer on either
\* workspace, so that the focus passes from one tag to the other
InitHandoff ==
    InitWith({Config("handoff", g, "Bottom", "Sloppy", mff, TRUE, "MainAndVertStack") :
                g \in Generation, mff \in BOOLEAN})

SpecHandoff == InitHandoff /\ [][NextLifecycle]_vars

\* Changes with and without a states field for fullscreen and other windows,
\* with and without a Dock, under both generations
InitStates ==
    InitWith({Config("states", g, "Bottom", "ClickTo", FALSE, TRUE, "MainAndVertStack") :
                g \in Generation})

SpecStates == InitStates /\ [][Next]_vars

\* Changes, moves and resizes of windows that may not be tracked
InitMiss ==
    InitWith({Config("miss", "methods", "Bottom", "ClickTo", FALSE, fnw, "MainAndVertStack") :
                fnw \in BOOLEAN})

SpecMiss == InitMiss /\ [][NextMiss]_vars

\* Windows with and without a tag of their own, created with the pointer on
\* either workspace or on none, under every focus behaviour
InitPlace ==
    InitWith({Config("place", "methods", "Bottom", b[1], b[2], fnw, "MainAndVertStack") :
                b \in {<<"ClickTo", FALSE>>, <<"Sloppy", FALSE>>, <<"Sloppy", TRUE>>},
                fnw \in BOOLEAN})

SpecPlace == InitPlace /\ [][NextLifecycle]_vars

\* Windows tagged by a window rule, windows started from a terminal, with two
\* workspaces and before any workspace exists
InitTags ==
    InitWith({[Config("tags", "methods", "Bottom", b, FALSE, TRUE, "MainAndVertStack")
                 EXCEPT !.screens = n] : b \in {"ClickTo", "Sloppy"}, n \in {0, 2}})

SpecTags == InitTags /\ [][NextLifecycle]_vars

\* Transient children of every type, their parent tracked or not, under both
\* generations
InitChild ==
    InitWith({Config("child", g, "Bottom", "ClickTo", FALSE, TRUE, "MainAndVertStack") :
                g \in Generation})

SpecChild == InitChild /\ [][NextLifecycle]_vars

\* Dialog, Splash, Utility and scratchpad windows among Normal ones, under
\* every insert behavior
InitTop ==
    InitWith({[Config("top", "methods", ib, "ClickTo", FALSE, fnw, l)
                 EXCEPT !.active_scratchpads = {ScratchpadPid}] :
                ib \in InsertBehavior, fnw \in BOOLEAN,
                l \in {"MainAndVertStack", "Monocle", "MainAndDeck"}})

SpecTop == InitTop /\ [][NextLifecycle]_vars

\* Fullscreen windows and windows of two tags, under the layouts that reorder
\* and one that does not
InitFullscreen ==
    InitWith({Config("fullscreen", "methods", "Bottom", "ClickTo", FALSE, TRUE, l) :
                l \in {"Monocle", "MainAndDeck", "MainAndVertStack"}})

SpecFullscreen == InitFullscreen /\ [][NextLifecycle]_vars

\* Windows of a program bound to the active scratchpad, on either workspace,
\* under both generations
InitScratch ==
    InitWith({[Config("scratch", g, "Bottom", b, FALSE, TRUE, "MainAndVertStack")
                 EXCEPT !.active_scratchpads = {ScratchpadPid}] :
                g \in Generation, b \in {"ClickTo", "Sloppy"}})

SpecScratch == InitScratch /\ [][NextLifecycle]_vars

-----------------------------------------------------------------------------
(* Claims *)

\* The actions the last handler call appended to the queue
Appended == SubSeq(actions, Len(ev.pre.actions) + 1, Len(actions))

GenericLayout == cfg.layout \notin {"Monocle", "MainAndDeck"}

\* C1: window_created_handler called with a handle that is already in the
\* window list returns false and leaves the window list, the focus history and
\* the action queue as they were.
C1_KnownHandleIsNoOp ==
    (ev.op = "created" /\ ev.known) =>
        /\ ret = FALSE
        /\ windows = ev.pre.windows
        /\ window_history = ev.pre.window_history
        /\ actions = ev.pre.actions

\* Every event so far created a Normal window, all of them on one tag
OnlyNormalCreations ==
    /\ nevents = Len(created)
    /\ Len(windows) = Len(created)
    /\ \A i \in 1..Len(windows) :
          windows[i].type = "Normal" /\ windows[i].tag = windows[1].tag

GenericInsertion ==
    /\ ev.op = "created" /\ ret /\ ~hung
    /\ ev.win.type = "Normal"
    /\ GenericLayout
    /\ focus_manager_window(ev.pre) # 0

FocusedBefore == ev.pre.windows[focus_manager_window(ev.pre)].handle

CreatedOneTwoThree ==
    /\ OnlyNormalCreations /\ GenericLayout
    /\ created = <<1, 2, 3>>
    /\ \A i \in 1..Len(windows) : ~windows[i].floating /\ ~is_fullscreen(windows[i])

ExpectedOrder ==
    CASE cfg.insert_behavior = "Top" -> <<3, 2, 1>>
      [] cfg.insert_behavior = "Bottom" -> <<1, 2, 3>>
      [] cfg.insert_behavior = "AfterCurrent" -> <<1, 3, 2>>
      [] cfg.insert_behavior = "BeforeCurrent" -> <<2, 3, 1>>

\* C4 as claimed: with focus_new_windows enabled, creating Normal windows 1, 2, 3
\* gives [3,2,1] under Top, [1,2,3] under Bottom, [1,3,2] under AfterCurrent
\* and [2,3,1] under BeforeCurrent.
C4_Original ==
    (CreatedOneTwoThree /\ cfg.focus_new_windows) => HandlesOf(windows) = ExpectedOrder

\* C4 amended: these four orders are those of focus_new_windows disabled, where
\* the focus stays on window 1, the first window of its tag.
C4_OrderWithFocusOnFirst ==
    (CreatedOneTwoThree /\ ~cfg.focus_new_windows) =>
        /\ HandlesOf(windows) = ExpectedOrder
        /\ Head(window_history) = 1

C4_Witness ==
    /\ CreatedOneTwoThree /\ ~cfg.focus_new_windows
    /\ cfg.insert_behavior = "BeforeCurrent"
    /\ HandlesOf(windows) = <<2, 3, 1>>

\* C5 as claimed: in the Monocle layout a new Normal window W on tag T precedes
\* every other managed window of T in the list, and if the topmost window of T
\* before was fullscreen, SetState(W, true, Fullscreen) is queued.
C5_MonocleOnTop ==
    (ev.op = "created" /\ ret /\ ~hung /\ cfg.layout = "Monocle" /\ ev.win.type = "Normal") =>
        LET i == PositionOf(windows, ev.handle)
            T == windows[i].tag
            before == SelectSeq(ev.pre.windows, LAMBDA x : is_managed(x) /\ x.tag = T)
        IN /\ i # 0
           /\ \A j \in 1..Len(windows) :
                 (j # i /\ is_managed(windows[j]) /\ windows[j].tag = T) => i < j
           /\ (Len(before) > 0 /\ is_fullscreen(before[1])) =>
                 \E k \in 1..Len(Appended) : Appended[k] = SetState(ev.handle, TRUE)

DestroyedFocused ==
    /\ ev.op = "destroyed" /\ ev.known
    /\ ev.pre.window_history # <<>>
    /\ Head(ev.pre.window_history) = ev.handle

DestroyedWindow == ev.pre.windows[PositionOf(ev.pre.windows, ev.handle)]

\* The transient parent of the destroyed window, resolved in the list it has
\* been removed from: a handle, None, or -1 when the resolution never ends
ParentAfterRemoval ==
    LET p == find_transient_parent(windows, DestroyedWindow.transient) IN
    IF p > 0 THEN windows[p].handle ELSE IF p = 0 THEN None ELSE -1

\* The next, else the previous, managed window of the focused workspace in the
\* list before the removal
SuccessorBefore ==
    LET T == workspaces(cfg)[ev.pre.focused_ws].tag
        group == SelectSeq(ev.pre.windows, LAMBDA x : is_managed(x) /\ x.tag = T)
        k == PositionOf(group, ev.handle)
    IN IF k = 0 THEN None
       ELSE IF k < Len(group) THEN group[k + 1].handle
       ELSE IF k > 1 THEN group[k - 1].handle
       ELSE None

FocusWentTo(h) ==
    /\ window_history = <<h>> \o ev.pre.window_history
    /\ Appended = <<FocusWindow(h)>>

Unfocused ==
    /\ window_history = <<None>> \o ev.pre.window_history
    /\ Appended = <<Unfocus(ev.handle, DestroyedWindow.floating)>>

\* C7: when the destroyed window was the front of the focus history, exactly
\* one outcome applies, in this priority: sloppy focus with
\* sloppy_mouse_follows_focus queues FocusWindowUnderCursor and leaves the
\* history alone; else a resolved transient parent gets the focus; else the
\* next-else-previous managed window of the focused workspace found before the
\* removal gets it; else Unfocus is queued and None is pushed onto the history.
C7_DestroyFocusPriority ==
    (DestroyedFocused /\ ~hung) =>
        IF is_sloppy(cfg) /\ cfg.sloppy_mouse_follows_focus
        THEN /\ Appended = <<FocusWindowUnderCursor>>
             /\ window_history = ev.pre.window_history
        ELSE IF ParentAfterRemoval # None THEN FocusWentTo(ParentAfterRemoval)
        ELSE IF SuccessorBefore # None THEN FocusWentTo(SuccessorBefore)
        ELSE Unfocused

\* The parent wins over a successor that exists too
C7_Witness ==
    /\ DestroyedFocused /\ ~hung
    /\ ~(is_sloppy(cfg) /\ cfg.sloppy_mouse_follows_focus)
    /\ ParentAfterRemoval \in Handle
    /\ SuccessorBefore \in Handle
    /\ SuccessorBefore # ParentAfterRemoval
    /\ Head(window_history) = ParentAfterRemoval

\* The destroyed window had the focus and its tag to itself, without sloppy focus
DestroyedAlone ==
    /\ DestroyedFocused
    /\ ~is_sloppy(cfg)
    /\ \A i \in 1..Len(ev.pre.windows) :
          ev.pre.windows[i].handle # ev.handle => ev.pre.windows[i].tag # DestroyedWindow.tag

\* C8 as claimed: destroying the focused window when no other window is on its
\* tag and sloppy focus is disabled queues Unfocus(handle, floating) and pushes
\* None onto the history.
C8_Original == DestroyedAlone => Unfocused

\* C8 amended: this is so when, in addition, the transient parent of the
\* destroyed window resolves to no window.
C8_UnfocusWithoutParent ==
    (DestroyedAlone /\ ParentAfterRemoval = None) => Unfocused

C8_Witness ==
    /\ DestroyedAlone /\ ParentAfterRemoval = None
    /\ Head(window_history) = None
    /\ Len(windows) > 0

\* The struts of the Dock windows in the list whose center lies in workspace k
DockStrutsIn(k) ==
    LET inside(w) == /\ w.type = "Dock" /\ w.strut # <<>>
                     /\ contains_point(workspaces(cfg)[k].xyhw,
                                       center(w.strut[1])[1], center(w.strut[1])[2])
        docks == SelectSeq(windows, inside)
    IN [i \in 1..Len(docks) |-> docks[i].strut[1]]

AvoidIsExact == \A k \in WsIndex : avoid[k] = DockStrutsIn(k)

\* C9 as claimed: after every handler call the avoid list of each workspace is
\* exactly the struts of the Dock windows in the window list whose center lies
\* inside the workspace; so after a Dock window with a strut centered in W is
\* added, the avoid list of W has that strut.
C9_AvoidAfterEveryHandler == (nevents > 0 /\ ~hung) => AvoidIsExact

\* C10 as claimed: right after window_destroyed_handler removes a tracked window
\* and right after window_changed_handler processes a change to a Dock window,
\* the avoid list of every workspace is exactly the struts of the remaining
\* Dock windows whose center lies in it.
C10_AvoidAfterDestroyOrDockChange ==
    (/\ ~hung /\ ev.op \in {"destroyed", "changed"} /\ ev.known
     /\ ev.op = "changed" =>
           ev.pre.windows[PositionOf(ev.pre.windows, ev.handle)].type = "Dock")
        => AvoidIsExact

\* The window the last event created, and the workspace chosen for it
NewWindow == windows[PositionOf(windows, ev.handle)]
ChosenWorkspace == workspaces(cfg)[target_workspace(cfg, ev.pre, ev.xy)]

\* The last event created a window that was floated as the transient child of
\* a tracked window
FloatedAsChild ==
    /\ ev.op = "created" /\ ~ev.known /\ ret /\ ~hung
    /\ ev.win.type # "Utility"
    /\ find_transient_parent(ev.pre.windows, ev.win.transient) > 0

ParentOfNew ==
    exact_xyhw(ev.pre.windows[find_transient_parent(ev.pre.windows, ev.win.transient)])

\* C11: a new window floated as a transient child ends with a floating exact
\* rectangle that lies inside the rectangle of its workspace, wherever the
\* parent is and whatever size the window asked for.
C11_ChildInsideWorkspace ==
    FloatedAsChild =>
        /\ NewWindow.floating
        /\ contains_xyhw(ChosenWorkspace.xyhw, exact_xyhw(NewWindow))

\* The window a move or resize event names, before and after the call
WindowBefore == ev.pre.windows[PositionOf(ev.pre.windows, ev.handle)]
WindowAfter == windows[PositionOf(windows, ev.handle)]

\* Where the window is after the move: a floating window at its normal
\* rectangle shifted to start location plus delta, a tiled one where it was
MovedRect ==
    LET w == WindowBefore
        off == IF w.offsets = <<>> THEN Rect(0, 0, 0, 0) ELSE w.offsets[1]
        start == IF w.start_loc = <<>> THEN Rect(0, 0, 0, 0) ELSE w.start_loc[1]
    IN IF w.floating
       THEN Rect(w.normal.x + start.x + ev.delta[1], w.normal.y + start.y + ev.delta[2],
                 w.normal.w + off.w, w.normal.h + off.h)
       ELSE w.normal

\* Some side of r is less than n away from the same side of the rectangle o
SideWithin(r, o, n) ==
    \/ Abs(r.x - o.x) < n
    \/ Abs(r.y - o.y) < n
    \/ Abs((r.x + r.w) - (o.x + o.w)) < n
    \/ Abs((r.y + r.h) - (o.y + o.h)) < n

\* The last event moved a tracked window that may be tiled, snapping enabled,
\* and the moved window has its center on a workspace
MoveThatMaySnap ==
    /\ ev.op = "moved" /\ ev.known
    /\ ~cfg.disable_window_snap
    /\ ~must_float(WindowBefore)
    /\ workspace_under(cfg, center(MovedRect)) # 0

WorkspaceOfMoved == workspaces(cfg)[workspace_under(cfg, center(MovedRect))]

\* The window was tiled on the workspace and the display order recomputed
Snapped ==
    /\ ~WindowAfter.floating
    /\ WindowAfter.tag = WorkspaceOfMoved.tag
    /\ restack = sort_windows(St).restack

NotSnapped ==
    /\ WindowAfter.floating = WindowBefore.floating
    /\ WindowAfter.tag = WindowBefore.tag
    /\ restack = ev.pre.restack

\* C12: with snapping enabled, a moved window that need not float is snapped
\* to the workspace and the windows re-sorted when one of its sides ends less
\* than 10 from the same side of the workspace, and is not when every side
\* ends 10 or more away.
C12_SnapBelowTen ==
    MoveThatMaySnap =>
        IF SideWithin(MovedRect, WorkspaceOfMoved.xyhw, 10) THEN Snapped ELSE NotSnapped

\* A floating window dragged to 9 from the left side is tiled, and the display
\* order changes with it
C12_Witness ==
    /\ MoveThatMaySnap
    /\ WindowBefore.floating
    /\ MovedRect.x - WorkspaceOfMoved.xyhw.x = 9
    /\ ~SideWithin(MovedRect, WorkspaceOfMoved.xyhw, 9)
    /\ Snapped
    /\ restack # ev.pre.restack

\* The last event announced a window that was not tracked, and the handler returned
FreshCreation == ev.op = "created" /\ ~ev.known /\ ~hung

\* The positions of the appended actions of the given kind that name the new window
AppendedAt(kind) ==
    {k \in 1..Len(Appended) : Appended[k].act = kind /\ Appended[k].handle = ev.handle}

\* C13: a successful creation returns true, leaves the new window in the list
\* exactly once, and appends AddedWindow(handle, floating, follow_mouse)
\* followed at once, if the window has a tag, by SetWindowTag(handle, tag);
\* the entries queued before stay where they were.
C13_AnnouncedOnce ==
    FreshCreation =>
        /\ ret = TRUE
        /\ Cardinality({i \in 1..Len(windows) : windows[i].handle = ev.handle}) = 1
        /\ Len(actions) >= Len(ev.pre.actions)
        /\ SubSeq(actions, 1, Len(ev.pre.actions)) = ev.pre.actions
        /\ Cardinality(AppendedAt("AddedWindow")) = 1
        /\ \A k \in AppendedAt("AddedWindow") :
              /\ Appended[k].flag = NewWindow.floating
              /\ Appended[k].follow \in BOOLEAN
              /\ IF NewWindow.tag # None
                 THEN /\ AppendedAt("SetWindowTag") = {k + 1}
                      /\ Appended[k + 1] = SetWindowTag(ev.handle, NewWindow.tag)
                 ELSE AppendedAt("SetWindowTag") = {}

\* A second window, announced after the actions of the first
C13_Witness ==
    /\ FreshCreation
    /\ Len(ev.pre.actions) > 0
    /\ Len(Appended) >= 2
    /\ Appended[1] = AddedWindow(ev.handle, FALSE, FALSE)
    /\ Appended[2] = SetWindowTag(ev.handle, 2)

\* No managed window was on the new window's tag before it
FirstOnItsTag ==
    ~\E i \in 1..Len(ev.pre.windows) :
        ev.pre.windows[i].tag = NewWindow.tag /\ is_managed(ev.pre.windows[i])

\* The new window is on the tag its target workspace displays
LandedOnActiveTag == NewWindow.tag = ChosenWorkspace.tag

\* C14: a new managed window is given the focus if and only if
\* (focus_new_windows is on or no managed window was on its tag) and it landed
\* on the active tag; otherwise the creation leaves the focus history as it was.
C14_FocusOnCreation ==
    (FreshCreation /\ is_managed(NewWindow)) =>
        IF (cfg.focus_new_windows \/ FirstOnItsTag) /\ LandedOnActiveTag
        THEN /\ window_history # <<>>
             /\ Head(window_history) = ev.handle
             /\ AppendedAt("FocusWindow") # {}
        ELSE /\ window_history = ev.pre.window_history
             /\ AppendedAt("FocusWindow") = {}

\* With focus_new_windows off, the first window of tag 2 takes the focus from
\* a window of tag 1
C14_Witness ==
    /\ FreshCreation /\ is_managed(NewWindow)
    /\ ~cfg.focus_new_windows
    /\ ev.pre.window_history # <<>>
    /\ NewWindow.tag = 2 /\ FirstOnItsTag /\ LandedOnActiveTag
    /\ Head(window_history) = ev.handle

\* The floating offsets and the start location of a window, (0, 0, 0, 0) if it has none
OffsetsOf(w) == IF w.offsets = <<>> THEN Rect(0, 0, 0, 0) ELSE w.offsets[1]
StartOf(w) == IF w.start_loc = <<>> THEN Rect(0, 0, 0, 0) ELSE w.start_loc[1]

\* C15: window_move_handler on a tracked window returns true and sets the
\* position of the floating offsets to start location plus delta, whatever the
\* position was before, and leaves their width and height as they were.
C15_MoveFromStart ==
    (ev.op = "moved" /\ ev.known) =>
        /\ ret = TRUE
        /\ WindowAfter.offsets # <<>>
        /\ OffsetsOf(WindowAfter).x = StartOf(WindowBefore).x + ev.delta[1]
        /\ OffsetsOf(WindowAfter).y = StartOf(WindowBefore).y + ev.delta[2]
        /\ OffsetsOf(WindowAfter).w = OffsetsOf(WindowBefore).w
        /\ OffsetsOf(WindowAfter).h = OffsetsOf(WindowBefore).h

\* A window with a start location moved by 9 and then by 10: it ends 10 from
\* its start, not 19
C15_Witness ==
    /\ ev.op = "moved" /\ ev.known /\ ret
    /\ WindowBefore.start_loc # <<>>
    /\ OffsetsOf(WindowBefore).x = StartOf(WindowBefore).x + 9
    /\ ev.delta[1] = 10
    /\ OffsetsOf(WindowAfter).x = StartOf(WindowBefore).x + 10
    /\ OffsetsOf(WindowAfter).w # 0

\* C16: window_resize_handler on a tracked window sets the width and height of
\* the floating offsets to start size plus delta, leaves their x and y as they
\* were, and neither snaps the window nor re-sorts the list.
C16_ResizeChangesSize ==
    (ev.op = "resized" /\ ev.known) =>
        /\ ret = TRUE
        /\ OffsetsOf(WindowAfter).w = StartOf(WindowBefore).w + ev.delta[1]
        /\ OffsetsOf(WindowAfter).h = StartOf(WindowBefore).h + ev.delta[2]
        /\ OffsetsOf(WindowAfter).x = OffsetsOf(WindowBefore).x
        /\ OffsetsOf(WindowAfter).y = OffsetsOf(WindowBefore).y
        /\ WindowAfter.floating = WindowBefore.floating
        /\ WindowAfter.tag = WindowBefore.tag
        /\ restack = ev.pre.restack

\* C17: window_changed_handler, window_move_handler and window_resize_handler
\* called with a handle that is not tracked return false and leave the window
\* list, the avoid lists, the focus history and the action queue as they were.
C17_UnknownHandleLeavesState ==
    (ev.op \in {"changed", "moved", "resized"} /\ ~ev.known) =>
        /\ ret = FALSE
        /\ windows = ev.pre.windows
        /\ avoid = ev.pre.avoid
        /\ window_history = ev.pre.window_history
        /\ actions = ev.pre.actions

\* A strut change for a window that is not tracked, while a dock and another
\* window are
C17_Witness ==
    /\ ev.op = "changed" /\ ~ev.known
    /\ ev.change.strut # <<>>
    /\ \E i \in 1..Len(windows) : windows[i].type = "Dock" /\ windows[i].strut # <<>>
    /\ window_history # <<>>
    /\ actions # <<>>

\* C18: every handler call returns, in every reachable state, cycles of
\* transient references among the tracked windows included.
C18_EveryCallReturns == ~hung

\* C19: the follow_mouse flag of the AddedWindow a creation queues is true if
\* and only if focus_new_windows, sloppy focus, sloppy_mouse_follows_focus and
\* the window having landed on the tag of the chosen workspace all hold.
C19_FollowMouse ==
    FreshCreation =>
        \A k \in AppendedAt("AddedWindow") :
            Appended[k].follow <=>
                /\ cfg.focus_new_windows
                /\ cfg.behaviour = "Sloppy"
                /\ cfg.sloppy_mouse_follows_focus
                /\ NewWindow.tag = ChosenWorkspace.tag

\* The flag is set for a window that landed on the workspace under the
\* pointer, which is not the focused one
C19_Witness ==
    /\ FreshCreation
    /\ ChosenWorkspace.tag # workspaces(cfg)[ev.pre.focused_ws].tag
    /\ NewWindow.tag = ChosenWorkspace.tag
    /\ \E k \in AppendedAt("AddedWindow") : Appended[k].follow

\* The workspaces whose rectangle contains the pointer of the last creation
PointerWorkspaces ==
    {i \in WsIndex : contains_point(workspaces(cfg)[i].xyhw, ev.xy[1], ev.xy[2])}

\* C20: a new window without a tag of its own gets the tag of a workspace
\* containing the pointer if the focus is sloppy and there is such a workspace,
\* and the tag of the focused workspace otherwise, wherever the pointer is.
C20_TargetWorkspace ==
    (FreshCreation /\ ev.win.tag = None) =>
        IF cfg.behaviour = "Sloppy" /\ PointerWorkspaces # {}
        THEN \E i \in PointerWorkspaces : NewWindow.tag = workspaces(cfg)[i].tag
        ELSE NewWindow.tag = workspaces(cfg)[ev.pre.focused_ws].tag

\* Under ClickTo a window created with the pointer on workspace 2 goes to the
\* focused workspace 1
C20_Witness ==
    /\ FreshCreation /\ ev.win.tag = None
    /\ cfg.behaviour = "ClickTo"
    /\ PointerWorkspaces = {2}
    /\ ev.pre.focused_ws = 1
    /\ NewWindow.tag = workspaces(cfg)[1].tag

\* The tracked window the terminal lookup of the last creation ends at
TerminalOfNew == find_terminal(ev.pre.windows, ev.terminal)

\* C21: the tag of a new window is the tag a window rule set on it, in every
\* case, no workspace existing included; else, with a workspace, the tag of the
\* window of the terminal it was started from if there is one, else the tag of
\* the chosen workspace.
C21_TagPriority ==
    FreshCreation =>
        IF ev.win.tag # None THEN NewWindow.tag = ev.win.tag
        ELSE workspaces(cfg) # <<>> =>
                IF TerminalOfNew # 0
                THEN NewWindow.tag = ev.pre.windows[TerminalOfNew].tag
                ELSE NewWindow.tag = ChosenWorkspace.tag

\* The last event created a window of a program bound to an active scratchpad
ScratchpadCreation ==
    /\ FreshCreation
    /\ ev.win.pid # None /\ ev.win.pid \in cfg.active_scratchpads

PlacedRelativeTo(outer) ==
    exact_xyhw(NewWindow) =
        exact_xyhw(set_relative_floating(cfg, ev.win, ChosenWorkspace, outer))

TopInsertion ==
    /\ FreshCreation
    /\ \/ ev.win.type \in {"Dialog", "Splash", "Utility"}
       \/ ev.win.pid # None /\ ev.win.pid \in cfg.active_scratchpads
    /\ ~(ev.win.type = "Normal" /\ ChosenWorkspace.layout \in {"Monocle", "MainAndDeck"})

GroupOf(list, tag) ==
    HandlesOf(SelectSeq(list, LAMBDA w : w.tag = tag /\ is_managed(w)))

\* The last event created a Normal window on a workspace with the given layout
NormalCreationUnder(layout) ==
    /\ FreshCreation
    /\ ev.win.type = "Normal"
    /\ ChosenWorkspace.layout = layout

C26_GroupSplicedInPlace ==
    (NormalCreationUnder("Monocle") \/ NormalCreationUnder("MainAndDeck")) =>
        SelectSeq(windows, LAMBDA w : w.handle # ev.handle) = ev.pre.windows

\* C27 as claimed: creating a Normal window queues SetState(h, false) for
\* another window h exactly when exactly one other Normal managed window of
\* its tag is fullscreen, h being that window and the action coming before the
\* new window's AddedWindow; no SetState at all is queued when the new window
\* is not Normal or no Normal managed window of its tag is fullscreen.
C27_ToggleOffExactlyOne ==
    FreshCreation =>
        LET T == NewWindow.tag
            fs == {i \in DOMAIN ev.pre.windows :
                      /\ ev.pre.windows[i].type = "Normal"
                      /\ is_managed(ev.pre.windows[i])
                      /\ ev.pre.windows[i].tag = T
                      /\ is_fullscreen(ev.pre.windows[i])}
            offs == {k \in DOMAIN Appended :
                        /\ Appended[k].act = "SetState"
                        /\ Appended[k].flag = FALSE
                        /\ Appended[k].handle # ev.handle}
        IN /\ (ev.win.type = "Normal" /\ Cardinality(fs) = 1) <=> offs # {}
           /\ \A k \in offs :
                 /\ \E i \in fs : ev.pre.windows[i].handle = Appended[k].handle
                 /\ \A a \in AppendedAt("AddedWindow") : k < a
           /\ (ev.win.type # "Normal" \/ fs = {}) =>
                 \A k \in DOMAIN Appended : Appended[k].act # "SetState"

\* The new window is told to become fullscreen
ToggledOn == \E k \in DOMAIN Appended : Appended[k] = SetState(ev.handle, TRUE)

\* C28: SetState(new, true) is queued only for a Normal window whose tag had a
\* fullscreen managed window, and then only under Monocle or when the tag had
\* no managed window; under every layout but Monocle it is never queued.
C28_ToggleOnOnlyOnTop ==
    FreshCreation =>
        LET group == SelectSeq(ev.pre.windows,
                               LAMBDA w : w.tag = NewWindow.tag /\ is_managed(w))
            was_fullscreen == /\ ev.win.type = "Normal"
                              /\ \E i \in DOMAIN group : is_fullscreen(group[i])
        IN /\ ToggledOn =>
                 (was_fullscreen /\ (ChosenWorkspace.layout = "Monocle" \/ group = <<>>))
           /\ ChosenWorkspace.layout # "Monocle" => ~ToggledOn

C28_Witness == FreshCreation /\ ToggledOn

\* The last event created a window that insert_window places by the configured
\* insert behavior
BehaviorInsertion ==
    /\ FreshCreation
    /\ ~TopInsertion
    /\ ~(ev.win.type = "Normal" /\ ChosenWorkspace.layout \in {"Monocle", "MainAndDeck"})

\* C29: the new window lands at an index between 0 and the length of what it
\* is inserted into, the list or for Monocle and MainAndDeck the group of its
\* tag, and nothing else changes place; AfterCurrent with the focused window
\* last appends, AfterCurrent and BeforeCurrent on an empty list insert at 0,
\* and without a focused window the current index counts as 0.
C29_IndexInRange ==
    FreshCreation =>
        LET pre == ev.pre.windows
            len == Len(pre)
            index == PositionOf(windows, ev.handle) - 1
            cur == focus_manager_window(ev.pre)
            old == GroupOf(pre, NewWindow.tag)
            new == GroupOf(windows, NewWindow.tag)
            at == PositionOf(SelectSeq(windows, LAMBDA w : w.tag = NewWindow.tag /\ is_managed(w)),
                             ev.handle) - 1
        IN /\ Len(windows) = len + 1
           /\ index \in 0..len
           /\ ~BehaviorInsertion /\ ~TopInsertion =>
                 /\ at \in 0..Len(old)
                 /\ new = SubSeq(old, 1, at) \o <<ev.handle>> \o SubSeq(old, at + 1, Len(old))
           /\ (BehaviorInsertion \/ TopInsertion) =>
                 windows = InsertAt(pre, index, NewWindow)
           /\ BehaviorInsertion =>
                 /\ (cfg.insert_behavior = "AfterCurrent" /\ len > 0 /\ cur = len) =>
                       index = len
                 /\ (cfg.insert_behavior \in {"AfterCurrent", "BeforeCurrent"} /\ len = 0) =>
                       index = 0
                 /\ (cfg.insert_behavior = "BeforeCurrent" /\ cur = 0) => index = 0
                 /\ (cfg.insert_behavior = "AfterCurrent" /\ cur = 0 /\ len > 0) => index = 1

C29_Witness ==
    /\ BehaviorInsertion
    /\ cfg.insert_behavior = "AfterCurrent"
    /\ Len(ev.pre.windows) > 1
    /\ focus_manager_window(ev.pre) = Len(ev.pre.windows)
    /\ PositionOf(windows, ev.handle) = Len(windows)

\* The handle the chain reaches from h in n steps, None once it leaves the list
\* or meets a window without transient reference
RECURSIVE ChainStep(_, _, _)
ChainStep(list, h, n) ==
    IF n = 0 THEN h
    ELSE LET i == PositionOf(list, h) IN
         IF i = 0 \/ list[i].transient = None THEN None
         ELSE ChainStep(list, list[i].transient, n - 1)

\* No window of the list is reached again by following transient references
Acyclic(list) ==
    \A i \in DOMAIN list : \A n \in 1..Len(list) :
        ChainStep(list, list[i].handle, n) # list[i].handle

\* C30 as claimed: on an acyclic window list find_transient_parent returns,
\* and what it returns is None only if the starting handle is not in the
\* list; a window it returns is the end of the chain, with no transient
\* reference to a window of the list.
C30_ChainEndFound ==
    Acyclic(windows) =>
        \A t \in Handle :
            LET r == find_transient_parent(windows, t)
            IN /\ r # -1
               /\ r = 0 <=> PositionOf(windows, t) = 0
               /\ r > 0 => \/ windows[r].transient = None
                           \/ PositionOf(windows, windows[r].transient) = 0

\* The window a change event is for, as it was before the event
ChangedWindow == ev.pre.windows[PositionOf(ev.pre.windows, ev.handle)]

\* The last event was a change of type for a tracked window that has a strut
\* no other window has
Reclassified(from_dock) ==
    /\ ev.op = "changed" /\ ev.known /\ ~hung
    /\ ChangedWindow.strut # <<>>
    /\ (ChangedWindow.type = "Dock") = from_dock
    /\ ev.change.type # NoChange
    /\ (ev.change.type = "Dock") = ~from_dock
    /\ \A i \in DOMAIN ev.pre.windows :
          ev.pre.windows[i].handle # ev.handle => ev.pre.windows[i].strut # ChangedWindow.strut

\* C31 as claimed: after a Dock window with a strut is changed to another type
\* its strut is in no avoid list, and after a window of another type with a
\* strut is changed to Dock its strut is in the avoid list of the workspace
\* that contains the center of the strut.
C31_ReclassifiedRecomputes ==
    /\ Reclassified(TRUE) =>
          \A k \in DOMAIN avoid : \A n \in DOMAIN avoid[k] :
              avoid[k][n] # ChangedWindow.strut[1]
    /\ Reclassified(FALSE) =>
          \A k \in DOMAIN avoid :
              contains_point(workspaces(cfg)[k].xyhw,
                             center(ChangedWindow.strut[1])[1],
                             center(ChangedWindow.strut[1])[2]) =>
                  \E n \in DOMAIN avoid[k] : avoid[k][n] = ChangedWindow.strut[1]

\* The last event was a change for a tracked window that is a Dock
DockChanged ==
    /\ ev.op = "changed" /\ ev.known /\ ~hung
    /\ ChangedWindow.type = "Dock"

\* C32 as claimed: a change event for a Dock window recomputes the avoid lists
\* and window_changed_handler does not return true for it, whatever the
\* update reports.
C32_DockChangeDoesNotRender ==
    DockChanged =>
        /\ ret = FALSE
        /\ avoid = update_workspace_avoid_list(cfg, St).avoid

\* The last event was a change for a tracked window
TrackedChange == ev.op = "changed" /\ ev.known /\ ~hung

\* The refresh of the first Dock window, if there is one, was requested once
\* and the windows were sorted again
FullscreenPathRan ==
    LET docks == SelectSeq(windows, LAMBDA w : w.type = "Dock")
    IN /\ restack = sort_windows(St).restack
       /\ dock_updates = ev.pre.dock_updates \o
                            (IF docks # <<>> THEN <<docks[1].handle>> ELSE <<>>)

FullscreenPathSkipped ==
    /\ restack = ev.pre.restack
    /\ dock_updates = ev.pre.dock_updates

\* C33 as claimed: for every change to a tracked window the fullscreen path
\* runs if and only if the incoming states include Fullscreen or the window is
\* fullscreen before the change, whether or not the change carries states.
C33_Original ==
    TrackedChange =>
        IF ev.change.states = "Fullscreen" \/ is_fullscreen(ChangedWindow)
        THEN FullscreenPathRan
        ELSE FullscreenPathSkipped

\* C33: for every change to a tracked window the fullscreen path runs if and
\* only if the change carries a states field and either the states include
\* Fullscreen or the window is fullscreen before the change.
C33_FullscreenPath ==
    TrackedChange =>
        IF /\ ev.change.states # NoChange
           /\ ev.change.states = "Fullscreen" \/ is_fullscreen(ChangedWindow)
        THEN FullscreenPathRan
        ELSE FullscreenPathSkipped

\* A change without states for a fullscreen window, with a Dock in the list
C33_Witness ==
    /\ TrackedChange
    /\ ev.change.states = NoChange
    /\ is_fullscreen(ChangedWindow)
    /\ \E i \in DOMAIN windows : windows[i].type = "Dock"
    /\ FullscreenPathSkipped

\* The last event destroyed a tracked window
TrackedDestroy == ev.op = "destroyed" /\ ev.known /\ ~hung

\* C34 as claimed: window_destroyed_handler on a tracked handle removes that
\* window and nothing else, and the remaining windows keep their relative
\* order, those of the focused workspace and the others alike.
C34_RemovesOnlyThatWindow ==
    TrackedDestroy =>
        windows = SelectSeq(ev.pre.windows, LAMBDA w : w.handle # ev.handle)

\* C35 as claimed: after window_destroyed_handler removed a tracked window no
\* tag has it as its last window, and the tags whose last window was another
\* one have the entry they had.
C35_Original ==
    TrackedDestroy =>
        \A t \in Tag :
            /\ tags_last_window[t] # ev.handle
            /\ ev.pre.tags_last_window[t] \notin {None, ev.handle} =>
                  tags_last_window[t] = ev.pre.tags_last_window[t]

\* The destroy handed the focus to another window
FocusHandedOver ==
    /\ TrackedDestroy
    /\ Len(window_history) = Len(ev.pre.window_history) + 1
    /\ Head(window_history) # None

\* C35: after window_destroyed_handler removed a tracked window no tag has it
\* as its last window, and the tags whose last window was another one have
\* the entry they had, but for the tag of the window the focus was handed
\* to, whose last window is now that window.
C35_PurgedButForHandover ==
    TrackedDestroy =>
        \A t \in Tag :
            /\ tags_last_window[t] # ev.handle
            /\ ev.pre.tags_last_window[t] \notin {None, ev.handle} =>
                  \/ tags_last_window[t] = ev.pre.tags_last_window[t]
                  \/ /\ FocusHandedOver
                     /\ tags_last_window[t] = Head(window_history)
                     /\ windows[PositionOf(windows, Head(window_history))].tag = t

\* The focus went to the transient parent on another tag, whose last window
\* was a third window
C35_Witness ==
    /\ FocusHandedOver
    /\ \E t \in Tag :
          /\ ev.pre.tags_last_window[t] \notin {None, ev.handle}
          /\ tags_last_window[t] # ev.pre.tags_last_window[t]

\* The rectangle of the three-stage policy: the requested size centered on
\* outer if the workspace contains that, else centered on the workspace if
\* the workspace contains that, else the centered half of the workspace
place_relative_to(requested, border, ws, outer) ==
    IF requested = <<>> THEN center_halfed(ws.xyhw)
    ELSE LET on_outer == center_relative(requested[1], outer, border)
             on_workspace == center_relative(requested[1], ws.xyhw, border)
         IN IF contains_xyhw(ws.xyhw, on_outer) THEN on_outer
            ELSE IF contains_xyhw(ws.xyhw, on_workspace) THEN on_workspace
            ELSE center_halfed(ws.xyhw)

\* C36 as claimed: relative floating placement marks the window floating,
\* sets normal to the workspace rectangle and takes as exact rectangle the
\* requested size centered on outer if it fits the workspace, else centered
\* on the workspace if that fits, else (or without a requested size) the
\* centered half of the workspace.
C36_ThreeStageFallback ==
    FloatedAsChild =>
        /\ NewWindow.floating
        /\ NewWindow.normal = ChosenWorkspace.xyhw
        /\ exact_xyhw(NewWindow) =
              place_relative_to(ev.win.requested, ev.win.border, ChosenWorkspace, ParentOfNew)

\* The move tiled a window that was floating
TiledByMove ==
    /\ ev.op = "moved" /\ ev.known
    /\ WindowBefore.floating
    /\ ~WindowAfter.floating

\* C37 as claimed: a move snaps the window only if snapping is not disabled,
\* the window is not must_float and its rectangle lies inside a workspace,
\* one of its sides being closer than 10 to the same side of that workspace;
\* a window whose rectangle no workspace contains is never snapped.
C37_SnapOnlyInside ==
    TiledByMove =>
        /\ ~cfg.disable_window_snap
        /\ ~must_float(WindowBefore)
        /\ \E k \in DOMAIN workspaces(cfg) :
              /\ contains_xyhw(workspaces(cfg)[k].xyhw, MovedRect)
              /\ SideWithin(MovedRect, workspaces(cfg)[k].xyhw, SnapDist)

\* C38 as claimed: whatever events were delivered, a window announced again
\* while tracked included, no two entries of the window list have the same
\* handle.
C38_HandlesUnique ==
    \A i, j \in DOMAIN windows : windows[i].handle = windows[j].handle => i = j

\* C39 as claimed: after every handler call that returns, the front of the
\* focus history is None or the handle of a window of the list; after
\* window_destroyed_handler it is never the destroyed handle, whatever the
\* focus behaviour.
C39_FrontIsTracked ==
    (nevents > 0 /\ ~hung /\ window_history # <<>>) =>
        /\ Head(window_history) = None \/ Known(Head(window_history))
        /\ TrackedDestroy => Head(window_history) # ev.handle

\* The last event destroyed a tracked window that was not the front of the
\* focus history
DestroyedUnfocused ==
    /\ TrackedDestroy
    /\ ev.pre.window_history = <<>> \/ Head(ev.pre.window_history) # ev.handle

\* C40 as claimed: destroying a tracked window that is not the front of the
\* focus history queues no action and leaves the focus history as it was; all
\* it does is remove the window from the list, purge it from tags_last_window
\* and recompute the avoid lists.
C40_UnfocusedDestroyIsQuiet ==
    DestroyedUnfocused =>
        /\ actions = ev.pre.actions
        /\ window_history = ev.pre.window_history
        /\ focused_ws = ev.pre.focused_ws
        /\ windows = SelectSeq(ev.pre.windows, LAMBDA w : w.handle # ev.handle)
        /\ tags_last_window = purge_last_window(ev.pre, ev.handle).tags_last_window
        /\ avoid = update_workspace_avoid_list(cfg, St).avoid

====
